---- MODULE Spec2Model ----
(***************************************************************************)
(* Storage lifecycle controller of Infinity (module storage): the mode     *)
(* state machine Storage::SetStorageMode, the reader continuation          *)
(* Storage::SetReaderStorageContinue and the catalog attach operations,    *)
(* over the component handles the Storage object owns.                     *)
(*                                                                         *)
(* A handle (a UniquePtr member) is "null", "made" (constructed, never     *)
(* started), "started" or "stopped".  Every operation is a function from   *)
(* the Storage object to the Storage object; it appends to `trace` the     *)
(* calls it makes on the components, in program order.                     *)
(***************************************************************************)
EXTENDS Integers, Sequences, FiniteSets, TLC

VARIABLES
    current_storage_mode_,      \* StorageMode, guarded by mutex_
    reader_init_phase_,         \* ReaderInitPhase
    wal_mgr_,
    new_catalog_,
    txn_mgr_,
    buffer_mgr_,
    persistence_manager_,
    object_storage_processor_,
    bg_processor_,
    compact_processor_,
    memory_index_tracer_,
    periodic_trigger_thread_,
    result_cache_manager_,
    cleanup_info_tracer_,
    triggers,                   \* triggers installed in *periodic_trigger_thread_
    compaction_alg,             \* the catalog's compaction algorithm is initialised
    remote_init,                \* VirtualStore::IsInit()
    remote_balance,             \* InitRemoteStore calls minus UnInitRemoteStore calls
    fatal,                      \* "none", or how the process died
    status,                     \* what the last operation returned
    trace,                      \* component calls of the last operation, in order
    op,                         \* the last operation and the state it was called in
    config,                     \* *config_ptr_, read-only
    mutex_,                     \* holder of Storage::mutex_ (0: free)
    pc,                         \* per thread: position inside SetStorageMode
    local                       \* per thread: locals current_mode, target_mode

vars == << current_storage_mode_, reader_init_phase_, wal_mgr_, new_catalog_, txn_mgr_,
           buffer_mgr_, persistence_manager_, object_storage_processor_, bg_processor_,
           compact_processor_, memory_index_tracer_, periodic_trigger_thread_,
           result_cache_manager_, cleanup_info_tracer_, triggers, compaction_alg,
           remote_init, remote_balance, fatal, status, trace, op, config, mutex_, pc,
           local >>

----------------------------------------------------------------------------
(* Enumerations *)

kUnInitialized == "UnInit"
kAdmin == "Admin"
kReadable == "Readable"
kWritable == "Writable"
StorageMode == {kUnInitialized, kAdmin, kReadable, kWritable}

kInvalid == "None"
kPhase1 == "Phase1"
kPhase2 == "Phase2"
ReaderInitPhase == {kInvalid, kPhase1, kPhase2}

kLocal == "Local"
kMinio == "Minio"
StorageType == {kLocal, kMinio}

\* The UniquePtr members of Storage that own a component.
Handles == {"wal_mgr_", "new_catalog_", "txn_mgr_", "buffer_mgr_", "persistence_manager_",
            "object_storage_processor_", "bg_processor_", "compact_processor_",
            "memory_index_tracer_", "periodic_trigger_thread_", "result_cache_manager_",
            "cleanup_info_tracer_"}

\* Trigger members of PeriodicTriggerThread.
WritableTriggers == {"full_checkpoint_trigger_", "delta_checkpoint_trigger_",
                     "compact_segment_trigger_", "optimize_index_trigger_"}
CleanupTrigger == {"cleanup_trigger_"}

\* Configurations the model ranges over: storage type, persistence directory
\* (empty or not), result cache option and compact interval (<= 0 or > 0).
Configs == [StorageType : StorageType, PersistenceDir : {"", "dir"},
            ResultCache : {"on", "off"}, CompactInterval : {0, 1}]

\* Values WalManager::ReplayWalFile returns: 0 (no prior state) or a later timestamp.
MaxTs == 1
Timestamps == 0 .. MaxTs

----------------------------------------------------------------------------
(* The Storage object as a record, and the primitive steps on it *)

Cur == [current_storage_mode_ |-> current_storage_mode_,
        reader_init_phase_ |-> reader_init_phase_,
        wal_mgr_ |-> wal_mgr_,
        new_catalog_ |-> new_catalog_,
        txn_mgr_ |-> txn_mgr_,
        buffer_mgr_ |-> buffer_mgr_,
        persistence_manager_ |-> persistence_manager_,
        object_storage_processor_ |-> object_storage_processor_,
        bg_processor_ |-> bg_processor_,
        compact_processor_ |-> compact_processor_,
        memory_index_tracer_ |-> memory_index_tracer_,
        periodic_trigger_thread_ |-> periodic_trigger_thread_,
        result_cache_manager_ |-> result_cache_manager_,
        cleanup_info_tracer_ |-> cleanup_info_tracer_,
        triggers |-> triggers,
        compaction_alg |-> compaction_alg,
        remote_init |-> remote_init,
        remote_balance |-> remote_balance,
        fatal |-> fatal,
        status |-> status,
        trace |-> trace]

\* A freshly constructed Storage: every member value-initialised.
NewStorage == [current_storage_mode_ |-> kUnInitialized,
               reader_init_phase_ |-> kInvalid,
               wal_mgr_ |-> "null",
               new_catalog_ |-> "null",
               txn_mgr_ |-> "null",
               buffer_mgr_ |-> "null",
               persistence_manager_ |-> "null",
               object_storage_processor_ |-> "null",
               bg_processor_ |-> "null",
               compact_processor_ |-> "null",
               memory_index_tracer_ |-> "null",
               periodic_trigger_thread_ |-> "null",
               result_cache_manager_ |-> "null",
               cleanup_info_tracer_ |-> "null",
               triggers |-> {},
               compaction_alg |-> FALSE,
               remote_init |-> FALSE,
               remote_balance |-> 0,
               fatal |-> "none",
               status |-> "none",
               trace |-> << >>]

\* An operation is executing in s: it has neither returned nor died.
Running(s) == s.fatal = "none" /\ s.status = "running"

\* Entry of a public operation.
Begin(s) == [s EXCEPT !.status = "running", !.trace = << >>]

\* Record a call in the trace.
Ev(s, e) == [s EXCEPT !.trace = Append(@, e)]

\* UnrecoverableError(msg): the operation does not continue and the process ends.
UnrecoverableError(s, msg) ==
    IF Running(s) THEN [Ev(s, <<"fatal", msg>>) EXCEPT !.fatal = "unrecoverable", !.status = "none"]
    ELSE s

\* A member call through a null UniquePtr.
NullDeref(s, h) ==
    IF Running(s) THEN [Ev(s, <<"nullptr", h>>) EXCEPT !.fatal = "nullptr", !.status = "none"]
    ELSE s

\* State kept inside the object h points to goes away with the object.
Forget(s, h) ==
    IF h = "new_catalog_" THEN [s EXCEPT !.compaction_alg = FALSE]
    ELSE IF h = "periodic_trigger_thread_" THEN [s EXCEPT !.triggers = {}]
    ELSE s

\* h = MakeUnique<...>(...): any object h held before is destroyed.
Make(s, h) ==
    IF Running(s) THEN [Forget(Ev(s, <<"new", h>>), h) EXCEPT ![h] = "made"] ELSE s

\* h->Start()
Start(s, h) ==
    IF ~Running(s) THEN s
    ELSE IF s[h] = "null" THEN NullDeref(s, h)
    ELSE [Ev(s, <<"Start", h>>) EXCEPT ![h] = "started"]

\* h->Stop()
Stop(s, h) ==
    IF ~Running(s) THEN s
    ELSE IF s[h] = "null" THEN NullDeref(s, h)
    ELSE [Ev(s, <<"Stop", h>>) EXCEPT ![h] = "stopped"]

\* h.reset(): drops the object if there is one.
Reset(s, h) ==
    IF ~Running(s) \/ s[h] = "null" THEN s
    ELSE [Forget(Ev(s, <<"reset", h>>), h) EXCEPT ![h] = "null"]

\* h->method(...): a call that needs the object and changes nothing the model tracks.
Call(s, h, method) ==
    IF ~Running(s) THEN s
    ELSE IF s[h] = "null" THEN NullDeref(s, h)
    ELSE Ev(s, <<method, h>>)

\* { std::unique_lock lock(mutex_); current_storage_mode_ = m; }
SetMode(s, m) ==
    IF Running(s) THEN [Ev(s, <<"mode", m>>) EXCEPT !.current_storage_mode_ = m] ELSE s

\* SetPhase as it would be if kPhase2 were stored as kInvalid.
SetPhase_LosesPhase2(s, p) ==
    LET q == IF p = kPhase2 THEN kInvalid ELSE p
    IN  IF Running(s) THEN [Ev(s, <<"phase", q>>) EXCEPT !.reader_init_phase_ = q] ELSE s

\* reader_init_phase_ = p;
SetPhase(s, p) ==
    IF Running(s) THEN [Ev(s, <<"phase", p>>) EXCEPT !.reader_init_phase_ = p] ELSE s

\* return st;
Return(s, st) ==
    IF Running(s) THEN [s EXCEPT !.status = st] ELSE s

\* if (h != nullptr) UnrecoverableError("... was initialized before.");
MustBeNull(s, h) ==
    IF Running(s) /\ s[h] # "null" THEN UnrecoverableError(s, h) ELSE s

----------------------------------------------------------------------------
(* Operations of Storage *)

\* StorageMode Storage::GetStorageMode() const
GetStorageMode(s) == s.current_storage_mode_

\* wal_mgr_ = MakeUnique<WalManager>(this, WALDir, DataDir, ...): not started.
NewWalManager(s) == Make(s, "wal_mgr_")

\* VirtualStore::InitRemoteStore(...): ok says whether the store could be reached.
InitRemoteStore(s, ok) ==
    IF ~Running(s) THEN s
    ELSE [Ev(s, <<"InitRemoteStore", IF ok THEN "ok" ELSE "error">>)
            EXCEPT !.remote_init = ok, !.remote_balance = @ + 1]

\* VirtualStore::UnInitRemoteStore()
UnInitRemoteStore(s) ==
    IF ~Running(s) THEN s
    ELSE [Ev(s, <<"UnInitRemoteStore", "">>)
            EXCEPT !.remote_init = FALSE, !.remote_balance = @ - 1]

\* void Storage::AttachCatalog(full_ckp_info, delta_ckp_infos)
AttachCatalog(s) == Make(s, "new_catalog_")

\* void Storage::LoadFullCheckpoint(checkpoint_path)
LoadFullCheckpoint(s) ==
    IF Running(s) /\ s.new_catalog_ # "null"
    THEN UnrecoverableError(s, "Catalog was already initialized before.")
    ELSE Make(s, "new_catalog_")

\* void Storage::AttachDeltaCheckpoint(checkpoint_path)
AttachDeltaCheckpoint(s) == Call(s, "new_catalog_", "AttachDeltaCheckpoint")

\* wal_mgr_->ReplayWalFile(target_mode) returning ts: a replay that finds a
\* checkpoint (ts > 0) attaches the catalog it loaded.
ReplayWalFile(s, ts) ==
    LET s1 == Call(s, "wal_mgr_", "ReplayWalFile")
        s2 == IF Running(s1) THEN Ev(s1, <<"system_start_ts", IF ts = 0 THEN "0" ELSE "> 0">>)
              ELSE s1
    IN IF ts > 0 THEN AttachCatalog(s2) ELSE s2

\* void Storage::CreateDefaultDB()
CreateDefaultDB(s) ==
    LET s1 == Call(s, "txn_mgr_", "BeginTxn create db1")
        s2 == Ev(s1, <<"CreateDatabase", "default_db">>)
    IN  IF Running(s1) THEN Call(s2, "txn_mgr_", "CommitTxn create db1") ELSE s1

\* periodic_trigger_thread_->X_trigger_ = MakeShared<...>(...), for X in ts
SetTriggers(s, ts) ==
    IF ~Running(s) THEN s
    ELSE IF s.periodic_trigger_thread_ = "null" THEN NullDeref(s, "periodic_trigger_thread_")
    ELSE [Ev(s, <<"SetTriggers", "periodic_trigger_thread_">>) EXCEPT !.triggers = @ \cup ts]

\* UnInitToAdmin as it would be without the check of target_mode.
UnInitToAdmin_NoGuard(s, target_mode) ==
    NewWalManager(MustBeNull(SetMode(s, target_mode), "wal_mgr_"))

\* case StorageMode::kUnInitialized
UnInitToAdmin(s, target_mode) ==
    LET s1 == IF target_mode # kAdmin
              THEN UnrecoverableError(s, "Attempt to set storage mode from UnInit to UnInit")
              ELSE s
        s2 == SetMode(s1, target_mode)
        s3 == MustBeNull(s2, "wal_mgr_")
    IN  NewWalManager(s3)

\* case StorageMode::kAdmin, target kUnInitialized
AdminToUnInit(s) == Reset(s, "wal_mgr_")

\* BringUpRemoteStore as it would be without restoring current_storage_mode_
\* on failure.
BringUpRemoteStore_NoRevert(s, cfg, current_mode, init_ok) ==
    IF cfg.StorageType = kLocal THEN s
    ELSE
        LET s1 == IF Running(s) /\ s.remote_init
                  THEN UnrecoverableError(s, "remote storage system was initialized before.")
                  ELSE s
            s2 == InitRemoteStore(s1, init_ok)
        IN  IF Running(s2) /\ ~init_ok
            THEN Return(UnInitRemoteStore(s2), "Error")
            ELSE Start(Make(MustBeNull(s2, "object_storage_processor_"),
                            "object_storage_processor_"),
                       "object_storage_processor_")

\* switch (config_ptr_->StorageType()) of the bring-up; returns the error
\* status when the remote store cannot be initialised.
BringUpRemoteStore(s, cfg, current_mode, init_ok) ==
    IF cfg.StorageType = kLocal THEN s
    ELSE
        LET s1 == IF Running(s) /\ s.remote_init
                  THEN UnrecoverableError(s, "remote storage system was initialized before.")
                  ELSE s
            s2 == InitRemoteStore(s1, init_ok)
        IN  IF Running(s2) /\ ~init_ok
            THEN Return(UnInitRemoteStore(SetMode(s2, current_mode)), "Error")
            ELSE Start(Make(MustBeNull(s2, "object_storage_processor_"),
                            "object_storage_processor_"),
                       "object_storage_processor_")

\* Persistence store, result cache and buffer manager of the bring-up.
BringUpBuffer(s, cfg) ==
    LET s1 == IF cfg.PersistenceDir # ""
              THEN Make(MustBeNull(s, "persistence_manager_"), "persistence_manager_")
              ELSE s
        s2 == IF Running(s1) /\ s1.result_cache_manager_ = "null"
              THEN Make(s1, "result_cache_manager_")
              ELSE s1
        s3 == Make(MustBeNull(s2, "buffer_mgr_"), "buffer_mgr_")
    IN  Start(s3, "buffer_mgr_")

\* if (compact_interval > 0 and current_storage_mode_ == kWritable) InitCompactionAlg
InitCompactionAlg(s, cfg) ==
    IF Running(s) /\ cfg.CompactInterval > 0 /\ s.current_storage_mode_ = kWritable
    THEN LET s1 == Call(s, "new_catalog_", "InitCompactionAlg")
         IN  IF Running(s1) THEN [s1 EXCEPT !.compaction_alg = TRUE] ELSE s1
    ELSE s

\* StartTxnAndWal as it would be with the WAL manager started before the
\* transaction manager is constructed.
StartTxnAndWal_WalFirst(s) ==
    LET s1 == Call(s, "new_catalog_", "BuiltinFunctions::Init")
        s2 == Make(MustBeNull(s1, "bg_processor_"), "bg_processor_")
        s3 == Start(s2, "wal_mgr_")
        s4 == Make(MustBeNull(s3, "txn_mgr_"), "txn_mgr_")
    IN  Start(s4, "txn_mgr_")

\* Builtin functions, background processor, transaction manager and WAL start:
\* shared by the writable bring-up and SetReaderStorageContinue.
StartTxnAndWal(s) ==
    LET s1 == Call(s, "new_catalog_", "BuiltinFunctions::Init")
        s2 == Make(MustBeNull(s1, "bg_processor_"), "bg_processor_")
        s3 == Make(MustBeNull(s2, "txn_mgr_"), "txn_mgr_")
        s4 == Start(s3, "txn_mgr_")
    IN  Start(s4, "wal_mgr_")

\* new_catalog_->StartMemoryIndexCommit(); new_catalog_->MemIndexRecover(...)
MemIndexRecover(s) ==
    Call(Call(s, "new_catalog_", "StartMemoryIndexCommit"), "new_catalog_", "MemIndexRecover")

\* ForceCheckpoint as it would be without force_ckp_task->Wait().
ForceCheckpoint_NoWait(s) ==
    LET s1 == Call(s, "txn_mgr_", "BeginTxn ForceCheckpointTask")
        s2 == Call(s1, "bg_processor_", "Submit ForceCheckpointTask")
    IN  Call(s2, "txn_mgr_", "CommitTxn ForceCheckpointTask")

\* The ForceCheckpointTask submitted at the end of the writable bring-up.
ForceCheckpoint(s) ==
    LET s1 == Call(s, "txn_mgr_", "BeginTxn ForceCheckpointTask")
        s2 == Call(s1, "bg_processor_", "Submit ForceCheckpointTask")
        s3 == Call(s2, "bg_processor_", "Wait ForceCheckpointTask")
    IN  Call(s3, "txn_mgr_", "CommitTxn ForceCheckpointTask")

\* BringUpCatalog as it would be if the default database were created
\* whatever the replay returned.
BringUpCatalog_AlwaysDefaultDB(s, cfg, target_mode, ts) ==
    LET s1  == ReplayWalFile(s, ts)
        s2  == IF ts = 0 THEN Make(s1, "new_catalog_") ELSE s1
        s3  == InitCompactionAlg(s2, cfg)
        s4  == StartTxnAndWal(s3)
        s5  == IF target_mode = kWritable THEN CreateDefaultDB(s4) ELSE s4
        s6  == Make(MustBeNull(s5, "memory_index_tracer_"), "memory_index_tracer_")
        s7  == Start(s6, "bg_processor_")
        s8  == IF target_mode = kWritable
               THEN Start(Make(MustBeNull(s7, "compact_processor_"), "compact_processor_"),
                          "compact_processor_")
               ELSE s7
        s9  == MemIndexRecover(s8)
        s10 == Make(MustBeNull(s9, "periodic_trigger_thread_"), "periodic_trigger_thread_")
        s11 == IF target_mode = kWritable THEN SetTriggers(s10, WritableTriggers) ELSE s10
        s12 == Call(SetTriggers(s11, CleanupTrigger), "bg_processor_", "SetCleanupTrigger")
        s13 == IF target_mode = kWritable THEN ForceCheckpoint(s12)
               ELSE SetPhase(s12, kPhase2)
    IN  Start(s13, "periodic_trigger_thread_")

\* case StorageMode::kAdmin, target kReadable or kWritable, after the buffer
\* manager has been started.
BringUpCatalog(s, cfg, target_mode, ts) ==
    LET s1  == ReplayWalFile(s, ts)
        s2  == IF ts = 0 THEN Make(s1, "new_catalog_") ELSE s1
        s3  == InitCompactionAlg(s2, cfg)
        s4  == StartTxnAndWal(s3)
        s5  == IF ts = 0 /\ target_mode = kWritable THEN CreateDefaultDB(s4) ELSE s4
        s6  == Make(MustBeNull(s5, "memory_index_tracer_"), "memory_index_tracer_")
        s7  == Start(s6, "bg_processor_")
        s8  == IF target_mode = kWritable
               THEN Start(Make(MustBeNull(s7, "compact_processor_"), "compact_processor_"),
                          "compact_processor_")
               ELSE s7
        s9  == MemIndexRecover(s8)
        s10 == Make(MustBeNull(s9, "periodic_trigger_thread_"), "periodic_trigger_thread_")
        s11 == IF target_mode = kWritable THEN SetTriggers(s10, WritableTriggers) ELSE s10
        s12 == Call(SetTriggers(s11, CleanupTrigger), "bg_processor_", "SetCleanupTrigger")
        s13 == IF target_mode = kWritable THEN ForceCheckpoint(s12)
               ELSE SetPhase(s12, kPhase2)
    IN  Start(s13, "periodic_trigger_thread_")

\* case StorageMode::kAdmin, target kReadable or kWritable
AdminBringUp(s, cfg, current_mode, target_mode, init_ok, ts) ==
    LET s1 == SetMode(s, target_mode)
        s2 == BringUpRemoteStore(s1, cfg, current_mode, init_ok)
        s3 == BringUpBuffer(s2, cfg)
    IN  IF Running(s3) /\ s3.current_storage_mode_ = kReadable
        THEN Return(SetPhase(s3, kPhase1), "OK")
        ELSE BringUpCatalog(s3, cfg, target_mode, ts)

\* if (h != nullptr) { h->Stop(); h.reset(); }
StopAndReset(s, h) ==
    IF Running(s) /\ s[h] # "null" THEN Reset(Stop(s, h), h) ELSE s

\* StopAndResetPhase2 as it would be with the phase checked whether or not the
\* handle is set.
StopAndResetPhase2_AlwaysChecks(s, h) ==
    IF Running(s) /\ s.reader_init_phase_ # kPhase2
    THEN UnrecoverableError(s, "Error reader init phase")
    ELSE IF Running(s) /\ s[h] # "null" THEN Reset(Stop(s, h), h)
    ELSE s

\* Readable teardown only: if (h != nullptr) { phase check; h->Stop(); h.reset(); }
StopAndResetPhase2(s, h) ==
    IF Running(s) /\ s[h] # "null"
    THEN IF s.reader_init_phase_ # kPhase2
         THEN UnrecoverableError(s, "Error reader init phase")
         ELSE Reset(Stop(s, h), h)
    ELSE s

\* TearDownRemoteStore as it would be without the call of UnInitRemoteStore.
TearDownRemoteStore_NoUnInit(s, cfg) ==
    IF cfg.StorageType = kMinio /\ Running(s) /\ s.object_storage_processor_ # "null"
    THEN Reset(Stop(s, "object_storage_processor_"), "object_storage_processor_")
    ELSE s

\* switch (config_ptr_->StorageType()) of the teardowns
TearDownRemoteStore(s, cfg) ==
    IF cfg.StorageType = kMinio /\ Running(s) /\ s.object_storage_processor_ # "null"
    THEN UnInitRemoteStore(Reset(Stop(s, "object_storage_processor_"),
                                 "object_storage_processor_"))
    ELSE s

\* if (target_mode == kAdmin) wal_mgr_ = MakeUnique<WalManager>(...)
RecreateWal(s, target_mode) ==
    IF target_mode = kAdmin THEN NewWalManager(s) ELSE s

\* case StorageMode::kReadable, target kUnInitialized or kAdmin
ReadableTearDown(s, cfg, target_mode) ==
    LET s1 == StopAndResetPhase2(s, "periodic_trigger_thread_")
        s2 == IF Running(s1) /\ s1.compact_processor_ # "null"
              THEN UnrecoverableError(s1, "Compact processor shouldn't be set before")
              ELSE s1
        s3 == StopAndResetPhase2(s2, "bg_processor_")
        s4 == Reset(s3, "new_catalog_")
        s5 == Reset(s4, "memory_index_tracer_")
        s6 == StopAndReset(s5, "wal_mgr_")
        s7 == TearDownRemoteStore(s6, cfg)
        s8 == StopAndResetPhase2(s7, "txn_mgr_")
        s9 == StopAndReset(s8, "buffer_mgr_")
        s10 == Reset(s9, "persistence_manager_")
    IN  RecreateWal(s10, target_mode)

\* Promote as it would be if the periodic thread were restarted with the
\* triggers it had.
Promote_KeepsTriggers(s) ==
    LET s1 == MustBeNull(s, "compact_processor_")
        s2 == Start(Make(s1, "compact_processor_"), "compact_processor_")
        s3 == Stop(s2, "periodic_trigger_thread_")
    IN  Start(s3, "periodic_trigger_thread_")

\* Promote as it would be with the triggers replaced while the periodic
\* thread is running.
Promote_TriggersWhileRunning(s) ==
    LET s1 == MustBeNull(s, "compact_processor_")
        s2 == Start(Make(s1, "compact_processor_"), "compact_processor_")
        s3 == SetTriggers(s2, WritableTriggers)
        s4 == Stop(s3, "periodic_trigger_thread_")
    IN  Start(s4, "periodic_trigger_thread_")

\* Promote as it would be without constructing the compaction processor.
Promote_NoCompaction(s) ==
    LET s1 == MustBeNull(s, "compact_processor_")
        s3 == Stop(s1, "periodic_trigger_thread_")
        s4 == SetTriggers(s3, WritableTriggers)
    IN  Start(s4, "periodic_trigger_thread_")

\* case StorageMode::kReadable, target kWritable
Promote(s) ==
    LET s1 == MustBeNull(s, "compact_processor_")
        s2 == Start(Make(s1, "compact_processor_"), "compact_processor_")
        s3 == Stop(s2, "periodic_trigger_thread_")
        s4 == SetTriggers(s3, WritableTriggers)
    IN  Start(s4, "periodic_trigger_thread_")

\* case StorageMode::kReadable
FromReadable(s, cfg, target_mode) ==
    LET s1 == IF target_mode = kReadable
              THEN UnrecoverableError(s, "Attempt to set storage mode from Readable to Readable")
              ELSE s
        s2 == IF target_mode \in {kUnInitialized, kAdmin}
              THEN ReadableTearDown(s1, cfg, target_mode)
              ELSE s1
        s3 == IF target_mode = kWritable THEN Promote(s2) ELSE s2
    IN  SetMode(s3, target_mode)

\* WritableTearDown as it would be with the buffer manager stopped and
\* dropped before the transaction manager.
WritableTearDown_BufferFirst(s, cfg, target_mode) ==
    LET s1 == StopAndReset(s, "periodic_trigger_thread_")
        s2 == StopAndReset(s1, "compact_processor_")
        s3 == StopAndReset(s2, "bg_processor_")
        s4 == Reset(s3, "new_catalog_")
        s5 == Reset(s4, "memory_index_tracer_")
        s6 == StopAndReset(s5, "wal_mgr_")
        s7 == TearDownRemoteStore(s6, cfg)
        s8 == StopAndReset(s7, "buffer_mgr_")
        s9 == StopAndReset(s8, "txn_mgr_")
        s10 == Reset(s9, "persistence_manager_")
    IN  RecreateWal(s10, target_mode)

\* WritableTearDown as it would be without persistence_manager_.reset().
WritableTearDown_KeepsPersistence(s, cfg, target_mode) ==
    LET s1 == StopAndReset(s, "periodic_trigger_thread_")
        s2 == StopAndReset(s1, "compact_processor_")
        s3 == StopAndReset(s2, "bg_processor_")
        s4 == Reset(s3, "new_catalog_")
        s5 == Reset(s4, "memory_index_tracer_")
        s6 == StopAndReset(s5, "wal_mgr_")
        s7 == TearDownRemoteStore(s6, cfg)
        s8 == StopAndReset(s7, "txn_mgr_")
        s9 == StopAndReset(s8, "buffer_mgr_")
    IN  RecreateWal(s9, target_mode)

\* WritableTearDown as it would be without the compaction processor block.
WritableTearDown_KeepsCompaction(s, cfg, target_mode) ==
    LET s1 == StopAndReset(s, "periodic_trigger_thread_")
        s3 == StopAndReset(s1, "bg_processor_")
        s4 == Reset(s3, "new_catalog_")
        s5 == Reset(s4, "memory_index_tracer_")
        s6 == StopAndReset(s5, "wal_mgr_")
        s7 == TearDownRemoteStore(s6, cfg)
        s8 == StopAndReset(s7, "txn_mgr_")
        s9 == StopAndReset(s8, "buffer_mgr_")
        s10 == Reset(s9, "persistence_manager_")
    IN  RecreateWal(s10, target_mode)

\* WritableTearDown as it would be with the catalog dropped before the
\* background processor is stopped.
WritableTearDown_CatalogFirst(s, cfg, target_mode) ==
    LET s1 == StopAndReset(s, "periodic_trigger_thread_")
        s2 == StopAndReset(s1, "compact_processor_")
        s3 == Reset(s2, "new_catalog_")
        s4 == StopAndReset(s3, "bg_processor_")
        s5 == Reset(s4, "memory_index_tracer_")
        s6 == StopAndReset(s5, "wal_mgr_")
        s7 == TearDownRemoteStore(s6, cfg)
        s8 == StopAndReset(s7, "txn_mgr_")
        s9 == StopAndReset(s8, "buffer_mgr_")
        s10 == Reset(s9, "persistence_manager_")
    IN  RecreateWal(s10, target_mode)

\* case StorageMode::kWritable, target kUnInitialized or kAdmin
WritableTearDown(s, cfg, target_mode) ==
    LET s1 == StopAndReset(s, "periodic_trigger_thread_")
        s2 == StopAndReset(s1, "compact_processor_")
        s3 == StopAndReset(s2, "bg_processor_")
        s4 == Reset(s3, "new_catalog_")
        s5 == Reset(s4, "memory_index_tracer_")
        s6 == StopAndReset(s5, "wal_mgr_")
        s7 == TearDownRemoteStore(s6, cfg)
        s8 == StopAndReset(s7, "txn_mgr_")
        s9 == StopAndReset(s8, "buffer_mgr_")
        s10 == Reset(s9, "persistence_manager_")
    IN  RecreateWal(s10, target_mode)

\* Demote as it would be if it restarted the background processor.
Demote_RestartsBg(s) ==
    LET s1 == StopAndReset(s, "periodic_trigger_thread_")
        s2 == StopAndReset(s1, "compact_processor_")
        s3 == Start(Stop(s2, "bg_processor_"), "bg_processor_")
        s4 == Make(s3, "periodic_trigger_thread_")
        s5 == SetTriggers(s4, CleanupTrigger)
        s6 == Call(s5, "bg_processor_", "SetCleanupTrigger")
    IN  Start(s6, "periodic_trigger_thread_")

\* Demote as it would be without dropping the compaction processor.
Demote_KeepsCompaction(s) ==
    LET s1 == StopAndReset(s, "periodic_trigger_thread_")
        s3 == Make(s1, "periodic_trigger_thread_")
        s4 == SetTriggers(s3, CleanupTrigger)
        s5 == Call(s4, "bg_processor_", "SetCleanupTrigger")
    IN  Start(s5, "periodic_trigger_thread_")

\* case StorageMode::kWritable, target kReadable
Demote(s) ==
    LET s1 == StopAndReset(s, "periodic_trigger_thread_")
        s2 == StopAndReset(s1, "compact_processor_")
        s3 == Make(s2, "periodic_trigger_thread_")
        s4 == SetTriggers(s3, CleanupTrigger)
        s5 == Call(s4, "bg_processor_", "SetCleanupTrigger")
    IN  Start(s5, "periodic_trigger_thread_")

\* case StorageMode::kWritable
FromWritable(s, cfg, target_mode) ==
    LET s1 == IF target_mode = kWritable
              THEN UnrecoverableError(s, "Attempt to set storage mode from Writable to Writable")
              ELSE s
        s2 == IF target_mode \in {kUnInitialized, kAdmin}
              THEN WritableTearDown(s1, cfg, target_mode)
              ELSE s1
        s3 == IF target_mode = kReadable THEN Demote(s2) ELSE s2
    IN  SetMode(s3, target_mode)

\* case StorageMode::kAdmin
FromAdmin(s, cfg, current_mode, target_mode, init_ok, ts) ==
    LET s1 == IF target_mode = kAdmin
              THEN UnrecoverableError(s, "Attempt to set storage mode from Admin to Admin")
              ELSE s
    IN  IF target_mode = kUnInitialized THEN AdminToUnInit(s1)
        ELSE AdminBringUp(s1, cfg, current_mode, target_mode, init_ok, ts)

\* The switch of SetStorageMode on the mode read at entry.
Dispatch(s, cfg, current_mode, target_mode, init_ok, ts) ==
    CASE current_mode = kUnInitialized -> UnInitToAdmin(s, target_mode)
      [] current_mode = kAdmin -> FromAdmin(s, cfg, current_mode, target_mode, init_ok, ts)
      [] current_mode = kReadable -> FromReadable(s, cfg, target_mode)
      [] current_mode = kWritable -> FromWritable(s, cfg, target_mode)

\* SetStorageMode as it would be with cleanup_info_tracer_ replaced before
\* the modes are compared.
SetStorageMode_TracerFirst(s, cfg, target_mode, init_ok, ts) ==
    LET s0 == Make(Begin(s), "cleanup_info_tracer_")
        current_mode == GetStorageMode(s0)
    IN  IF current_mode = target_mode THEN Return(Ev(s0, <<"warn", "Set unchanged mode">>), "OK")
        ELSE Return(Dispatch(s0, cfg, current_mode, target_mode, init_ok, ts), "OK")

\* SetStorageMode as it would be without the comparison of the modes at entry.
SetStorageMode_NoUnchangedCheck(s, cfg, target_mode, init_ok, ts) ==
    LET s0 == Begin(s)
        current_mode == GetStorageMode(s0)
    IN  Return(Dispatch(Make(s0, "cleanup_info_tracer_"), cfg, current_mode,
                        target_mode, init_ok, ts),
               "OK")

\* Status Storage::SetStorageMode(StorageMode target_mode), run by one thread
\* from entry to return.  init_ok: outcome of InitRemoteStore, ts: result of
\* ReplayWalFile, should the transition call them.
SetStorageMode(s, cfg, target_mode, init_ok, ts) ==
    LET s0 == Begin(s)
        current_mode == GetStorageMode(s0)
    IN  IF current_mode = target_mode THEN Return(Ev(s0, <<"warn", "Set unchanged mode">>), "OK")
        ELSE Return(Dispatch(Make(s0, "cleanup_info_tracer_"), cfg, current_mode,
                             target_mode, init_ok, ts),
                    "OK")

\* SetReaderStorageContinue as it would be without the check of the mode.
SetReaderStorageContinue_NoModeCheck(s) ==
    LET s0 == Begin(s)
        s2 == StartTxnAndWal(s0)
        s3 == Make(MustBeNull(s2, "memory_index_tracer_"), "memory_index_tracer_")
        s4 == MemIndexRecover(s3)
        s5 == Start(s4, "bg_processor_")
        s6 == Make(MustBeNull(s5, "periodic_trigger_thread_"), "periodic_trigger_thread_")
        s7 == Call(SetTriggers(s6, CleanupTrigger), "bg_processor_", "SetCleanupTrigger")
        s8 == Start(s7, "periodic_trigger_thread_")
    IN  Return(SetPhase(s8, kPhase2), "OK")

\* Status Storage::SetReaderStorageContinue(TxnTimeStamp system_start_ts)
SetReaderStorageContinue(s) ==
    LET s0 == Begin(s)
        s1 == IF GetStorageMode(s0) # kReadable
              THEN UnrecoverableError(s0, "Expect current storage mode is READER")
              ELSE s0
        s2 == StartTxnAndWal(s1)
        s3 == Make(MustBeNull(s2, "memory_index_tracer_"), "memory_index_tracer_")
        s4 == MemIndexRecover(s3)
        s5 == Start(s4, "bg_processor_")
        s6 == Make(MustBeNull(s5, "periodic_trigger_thread_"), "periodic_trigger_thread_")
        s7 == Call(SetTriggers(s6, CleanupTrigger), "bg_processor_", "SetCleanupTrigger")
        s8 == Start(s7, "periodic_trigger_thread_")
    IN  Return(SetPhase(s8, kPhase2), "OK")

\* result_cache_manager as it would be without the test of the option.
result_cache_manager_IgnoresOption(s, cfg) == s.result_cache_manager_

\* ResultCacheManager *Storage::result_cache_manager() const
result_cache_manager(s, cfg) ==
    IF cfg.ResultCache # "on" THEN "null" ELSE s.result_cache_manager_

----------------------------------------------------------------------------
(* The state machine: one thread calling the public operations in any order *)

\* Threads of the process that may call into Storage.
NumThreads == 2
Threads == 1 .. NumThreads

\* The Storage members and VirtualStore state become those of record r.
Install(r) ==
    /\ current_storage_mode_' = r.current_storage_mode_
    /\ reader_init_phase_' = r.reader_init_phase_
    /\ wal_mgr_' = r.wal_mgr_
    /\ new_catalog_' = r.new_catalog_
    /\ txn_mgr_' = r.txn_mgr_
    /\ buffer_mgr_' = r.buffer_mgr_
    /\ persistence_manager_' = r.persistence_manager_
    /\ object_storage_processor_' = r.object_storage_processor_
    /\ bg_processor_' = r.bg_processor_
    /\ compact_processor_' = r.compact_processor_
    /\ memory_index_tracer_' = r.memory_index_tracer_
    /\ periodic_trigger_thread_' = r.periodic_trigger_thread_
    /\ result_cache_manager_' = r.result_cache_manager_
    /\ cleanup_info_tracer_' = r.cleanup_info_tracer_
    /\ triggers' = r.triggers
    /\ compaction_alg' = r.compaction_alg
    /\ remote_init' = r.remote_init
    /\ remote_balance' = r.remote_balance
    /\ fatal' = r.fatal
    /\ status' = r.status
    /\ trace' = r.trace

\* What `op` remembers of a call: its name, its argument and the Storage it found.
OpRecord(name, target_mode) == [name |-> name, target |-> target_mode, pre |-> Cur]

Init ==
    /\ current_storage_mode_ = NewStorage.current_storage_mode_
    /\ reader_init_phase_ = NewStorage.reader_init_phase_
    /\ wal_mgr_ = NewStorage.wal_mgr_
    /\ new_catalog_ = NewStorage.new_catalog_
    /\ txn_mgr_ = NewStorage.txn_mgr_
    /\ buffer_mgr_ = NewStorage.buffer_mgr_
    /\ persistence_manager_ = NewStorage.persistence_manager_
    /\ object_storage_processor_ = NewStorage.object_storage_processor_
    /\ bg_processor_ = NewStorage.bg_processor_
    /\ compact_processor_ = NewStorage.compact_processor_
    /\ memory_index_tracer_ = NewStorage.memory_index_tracer_
    /\ periodic_trigger_thread_ = NewStorage.periodic_trigger_thread_
    /\ result_cache_manager_ = NewStorage.result_cache_manager_
    /\ cleanup_info_tracer_ = NewStorage.cleanup_info_tracer_
    /\ triggers = NewStorage.triggers
    /\ compaction_alg = NewStorage.compaction_alg
    /\ remote_init = NewStorage.remote_init
    /\ remote_balance = NewStorage.remote_balance
    /\ fatal = NewStorage.fatal
    /\ status = NewStorage.status
    /\ trace = NewStorage.trace
    /\ config \in Configs
    /\ op = [name |-> "Storage", target |-> kUnInitialized, pre |-> NewStorage]
    /\ mutex_ = 0
    /\ pc = [t \in Threads |-> "idle"]
    /\ local = [t \in Threads |-> [current_mode |-> kUnInitialized,
                                   target_mode |-> kUnInitialized]]

\* A caller invokes SetStorageMode(target_mode).
SetStorageModeOp ==
    /\ fatal = "none"
    /\ \E target_mode \in StorageMode, init_ok \in BOOLEAN, ts \in Timestamps :
          /\ Install(SetStorageMode(Cur, config, target_mode, init_ok, ts))
          /\ op' = OpRecord("SetStorageMode", target_mode)
    /\ UNCHANGED << config, mutex_, pc, local >>

\* A caller invokes SetReaderStorageContinue(system_start_ts).
SetReaderStorageContinueOp ==
    /\ fatal = "none"
    /\ Install(SetReaderStorageContinue(Cur))
    /\ op' = OpRecord("SetReaderStorageContinue", current_storage_mode_)
    /\ UNCHANGED << config, mutex_, pc, local >>

\* A caller asks for the result cache: result_cache_manager() returns a
\* pointer and changes nothing.
ResultCacheManagerOp ==
    /\ fatal = "none"
    /\ Install(Return(Begin(Cur), result_cache_manager(Cur, config)))
    /\ op' = OpRecord("result_cache_manager", current_storage_mode_)
    /\ UNCHANGED << config, mutex_, pc, local >>

\* The log-replication client hands the reader a checkpoint set: it calls
\* AttachCatalog on a reader that has no catalog yet.
AttachCatalogOp ==
    /\ fatal = "none"
    /\ current_storage_mode_ = kReadable
    /\ new_catalog_ = "null"
    /\ Install(Return(AttachCatalog(Begin(Cur)), "OK"))
    /\ op' = OpRecord("AttachCatalog", current_storage_mode_)
    /\ UNCHANGED << config, mutex_, pc, local >>

\* The log-replication client calls LoadFullCheckpoint on a reader.
LoadFullCheckpointOp ==
    /\ fatal = "none"
    /\ current_storage_mode_ = kReadable
    /\ Install(Return(LoadFullCheckpoint(Begin(Cur)), "OK"))
    /\ op' = OpRecord("LoadFullCheckpoint", current_storage_mode_)
    /\ UNCHANGED << config, mutex_, pc, local >>

\* The log-replication client calls AttachDeltaCheckpoint on a reader.
AttachDeltaCheckpointOp ==
    /\ fatal = "none"
    /\ current_storage_mode_ = kReadable
    /\ Install(Return(AttachDeltaCheckpoint(Begin(Cur)), "OK"))
    /\ op' = OpRecord("AttachDeltaCheckpoint", current_storage_mode_)
    /\ UNCHANGED << config, mutex_, pc, local >>

Next ==
    \/ SetStorageModeOp
    \/ SetReaderStorageContinueOp
    \/ ResultCacheManagerOp
    \/ AttachCatalogOp
    \/ LoadFullCheckpointOp
    \/ AttachDeltaCheckpointOp

Spec == Init /\ [][Next]_vars

----------------------------------------------------------------------------
(* SetStorageMode statement by statement, called by several threads.        *)
(* mutex_ is taken where the code takes it: inside GetStorageMode and       *)
(* around each assignment to current_storage_mode_.  The callers ask for    *)
(* UnInitialized or Admin, so the switch runs its first two cases.          *)

ConcTargets == {kUnInitialized, kAdmin}

\* The Storage a statement of a running call works on.
Exec == [Cur EXCEPT !.status = "running", !.trace = << >>]

\* The statement leaves Storage as r; a call that has not returned leaves the
\* last returned status in place.
Yield(r) == Install(IF r.status = "running" THEN [r EXCEPT !.status = status] ELSE r)

Goto(t, label) == pc' = [pc EXCEPT ![t] = label]

\* Thread t enters SetStorageMode(target_mode).
CallSetStorageMode(t) ==
    /\ fatal = "none"
    /\ pc[t] = "idle"
    /\ \E target_mode \in ConcTargets :
          local' = [local EXCEPT ![t].target_mode = target_mode]
    /\ Goto(t, "get_mode")
    /\ op' = [op EXCEPT !.name = "SetStorageMode"]
    /\ Yield(Exec)
    /\ UNCHANGED << config, mutex_ >>

\* std::unique_lock<std::mutex> lock(mutex_), in GetStorageMode and around the
\* assignments to current_storage_mode_.
Lock(t) ==
    /\ fatal = "none"
    /\ pc[t] \in {"get_mode", "set_mode"}
    /\ mutex_ = 0
    /\ mutex_' = t
    /\ Goto(t, IF pc[t] = "get_mode" THEN "get_mode_locked" ELSE "set_mode_locked")
    /\ Yield(Exec)
    /\ UNCHANGED << config, op, local >>

\* StorageMode current_mode = GetStorageMode(); the lock is released on return.
ReadMode(t) ==
    /\ fatal = "none"
    /\ pc[t] = "get_mode_locked"
    /\ local' = [local EXCEPT ![t].current_mode = GetStorageMode(Cur)]
    /\ mutex_' = 0
    /\ Goto(t, "compare")
    /\ Yield(Exec)
    /\ UNCHANGED << config, op >>

\* if (current_mode == target_mode) return OK; cleanup_info_tracer_ = MakeUnique<...>();
Compare(t) ==
    /\ fatal = "none"
    /\ pc[t] = "compare"
    /\ IF local[t].current_mode = local[t].target_mode
       THEN /\ Yield(Return(Ev(Exec, <<"warn", "Set unchanged mode">>), "OK"))
            /\ Goto(t, "idle")
       ELSE /\ Yield(Make(Exec, "cleanup_info_tracer_"))
            /\ Goto(t, "switch")
    /\ UNCHANGED << config, op, mutex_, local >>

\* switch (current_mode): the guards at the head of the cases kUnInitialized and kAdmin.
Switch(t) ==
    /\ fatal = "none"
    /\ pc[t] = "switch"
    /\ local[t].current_mode \in {kUnInitialized, kAdmin}
    /\ IF local[t].current_mode = kUnInitialized
       THEN IF local[t].target_mode # kAdmin
            THEN /\ Yield(UnrecoverableError(Exec, "Attempt to set storage mode from UnInit to UnInit"))
                 /\ Goto(t, "dead")
            ELSE /\ Yield(Exec)
                 /\ Goto(t, "set_mode")
       ELSE IF local[t].target_mode = kAdmin
            THEN /\ Yield(UnrecoverableError(Exec, "Attempt to set storage mode from Admin to Admin"))
                 /\ Goto(t, "dead")
            ELSE /\ Yield(Exec)
                 /\ Goto(t, "reset_wal")
    /\ UNCHANGED << config, op, mutex_, local >>

\* current_storage_mode_ = target_mode; the lock is released at the end of the block.
WriteMode(t) ==
    /\ fatal = "none"
    /\ pc[t] = "set_mode_locked"
    /\ Yield(SetMode(Exec, local[t].target_mode))
    /\ mutex_' = 0
    /\ Goto(t, "check_wal")
    /\ UNCHANGED << config, op, local >>

\* if (wal_mgr_ != nullptr) UnrecoverableError("WAL manager was initialized before.");
CheckWal(t) ==
    /\ fatal = "none"
    /\ pc[t] = "check_wal"
    /\ Yield(MustBeNull(Exec, "wal_mgr_"))
    /\ Goto(t, IF wal_mgr_ # "null" THEN "dead" ELSE "make_wal")
    /\ UNCHANGED << config, op, mutex_, local >>

\* wal_mgr_ = MakeUnique<WalManager>(...)
MakeWal(t) ==
    /\ fatal = "none"
    /\ pc[t] = "make_wal"
    /\ Yield(NewWalManager(Exec))
    /\ Goto(t, "return")
    /\ UNCHANGED << config, op, mutex_, local >>

\* wal_mgr_.reset(), Admin to UnInitialized
ResetWal(t) ==
    /\ fatal = "none"
    /\ pc[t] = "reset_wal"
    /\ Yield(AdminToUnInit(Exec))
    /\ Goto(t, "return")
    /\ UNCHANGED << config, op, mutex_, local >>

\* return Status::OK();
ReturnOK(t) ==
    /\ fatal = "none"
    /\ pc[t] = "return"
    /\ Yield(Return(Exec, "OK"))
    /\ Goto(t, "idle")
    /\ UNCHANGED << config, op, mutex_, local >>

\* The member the next statement of thread t reads or writes outside mutex_.
Touches(t) ==
    CASE pc[t] = "compare" /\ local[t].current_mode # local[t].target_mode
            -> [member |-> "cleanup_info_tracer_", write |-> TRUE]
      [] pc[t] = "check_wal" -> [member |-> "wal_mgr_", write |-> FALSE]
      [] pc[t] \in {"make_wal", "reset_wal"} -> [member |-> "wal_mgr_", write |-> TRUE]
      [] OTHER -> [member |-> "", write |-> FALSE]

\* Two threads are about to access the same member with no lock held, one of
\* them writing: the behaviour is undefined, and the process may die of it.
DataRace(t) ==
    /\ fatal = "none"
    /\ \E u \in Threads \ {t} :
          /\ Touches(t).member # ""
          /\ Touches(t).member = Touches(u).member
          /\ Touches(t).write \/ Touches(u).write
    /\ Yield([Ev(Exec, <<"data race", Touches(t).member>>) EXCEPT !.fatal = "data race"])
    /\ Goto(t, "dead")
    /\ UNCHANGED << config, op, mutex_, local >>

NextConc ==
    \E t \in Threads :
        \/ CallSetStorageMode(t)
        \/ Lock(t)
        \/ ReadMode(t)
        \/ Compare(t)
        \/ Switch(t)
        \/ WriteMode(t)
        \/ CheckWal(t)
        \/ MakeWal(t)
        \/ ResetWal(t)
        \/ ReturnOK(t)
        \/ DataRace(t)

SpecConc == Init /\ [][NextConc]_vars

----------------------------------------------------------------------------
(* Vocabulary of the properties *)

\* The process is alive and no operation is executing: the state is one
\* "between operations".
Quiescent == fatal = "none"

Present(h) == Cur[h] # "null"
Absent(h) == Cur[h] = "null"

\* The last operation was SetStorageMode(to) called in mode from, and it returned OK.
Transition(from, to) ==
    /\ op.name = "SetStorageMode"
    /\ op.pre.current_storage_mode_ = from
    /\ op.target = to
    /\ fatal = "none"
    /\ status = "OK"

\* Position of event e in the trace of the last operation (0: it did not happen).
Pos(e) ==
    IF \E i \in 1 .. Len(trace) : trace[i] = e
    THEN CHOOSE i \in 1 .. Len(trace) : trace[i] = e /\ \A j \in 1 .. i - 1 : trace[j] # e
    ELSE 0

Happened(e) == Pos(e) > 0

\* If both events happened in the last operation, a came first.
Before(a, b) == (Happened(a) /\ Happened(b)) => Pos(a) < Pos(b)

\* The last operation was a teardown: SetStorageMode from Readable or Writable
\* to UnInitialized or Admin.
TearDown ==
    /\ op.name = "SetStorageMode"
    /\ op.pre.current_storage_mode_ \in {kReadable, kWritable}
    /\ op.target \in {kUnInitialized, kAdmin}

----------------------------------------------------------------------------
(* Lifecycle invariants by mode *)

\* Handles the teardowns never drop: the result cache is built once, by the
\* first bring-up, and the cleanup tracer is rebuilt by every transition.
KeptHandles == {"result_cache_manager_", "cleanup_info_tracer_"}

C2_AdminOnlyWal ==
    (Quiescent /\ current_storage_mode_ = kAdmin)
        => /\ Present("wal_mgr_")
           /\ \A h \in Handles \ {"wal_mgr_", "cleanup_info_tracer_"} : Absent(h)

\* C3: after SetStorageMode returns OK with current_mode = Writable, wal,
\* catalog, txn_mgr, buffer_mgr, bg_proc, compact_proc, mem_idx_tracer,
\* periodic_thread and result_cache are present, object_store_proc is present
\* iff the storage type is remote, and persistence is present iff the
\* persistence directory is not empty.
C3_WritableHandles ==
    (op.name = "SetStorageMode" /\ Quiescent /\ status = "OK"
        /\ current_storage_mode_ = kWritable)
        => /\ \A h \in {"wal_mgr_", "new_catalog_", "txn_mgr_", "buffer_mgr_",
                        "bg_processor_", "compact_processor_", "memory_index_tracer_",
                        "periodic_trigger_thread_", "result_cache_manager_"} : Present(h)
           /\ Present("object_storage_processor_") <=> (config.StorageType = kMinio)
           /\ Present("persistence_manager_") <=> (config.PersistenceDir # "")

\* A promotion Readable -> Writable has returned OK on a remote store without
\* persistence directory.
C3_Witness ==
    /\ Transition(kReadable, kWritable)
    /\ current_storage_mode_ = kWritable
    /\ config.StorageType = kMinio
    /\ config.PersistenceDir = ""

\* C4 as stated: between operations, current_mode = Readable and reader_phase =
\* Phase1 imply that wal, buffer_mgr and result_cache are present and catalog,
\* txn_mgr, bg_proc, mem_idx_tracer and periodic_thread are absent.
C4_ReadablePhase1Handles ==
    (Quiescent /\ current_storage_mode_ = kReadable /\ reader_init_phase_ = kPhase1)
        => /\ \A h \in {"wal_mgr_", "buffer_mgr_", "result_cache_manager_"} : Present(h)
           /\ \A h \in {"new_catalog_", "txn_mgr_", "bg_processor_", "memory_index_tracer_",
                        "periodic_trigger_thread_"} : Absent(h)

\* C5: between operations, current_mode = Readable and reader_phase = Phase2
\* imply that wal, catalog, txn_mgr, buffer_mgr, bg_proc, mem_idx_tracer,
\* periodic_thread and result_cache are present and compact_proc is absent.
C5_ReadablePhase2Handles ==
    (Quiescent /\ current_storage_mode_ = kReadable /\ reader_init_phase_ = kPhase2)
        => /\ \A h \in {"wal_mgr_", "new_catalog_", "txn_mgr_", "buffer_mgr_",
                        "bg_processor_", "memory_index_tracer_",
                        "periodic_trigger_thread_", "result_cache_manager_"} : Present(h)
           /\ Absent("compact_processor_")

\* A reader that went through SetReaderStorageContinue, was promoted and is
\* demoted again: Readable, Phase2.
C5_Witness ==
    /\ Transition(kWritable, kReadable)
    /\ current_storage_mode_ = kReadable
    /\ reader_init_phase_ = kPhase2

\* C6: between operations compact_proc is present only in Writable; a
\* transition out of Writable stops and drops it, and an operation that ends
\* in another mode constructs none.
C6_CompactOnlyInWritable ==
    /\ (Quiescent /\ Present("compact_processor_")) => current_storage_mode_ = kWritable
    /\ (Quiescent /\ current_storage_mode_ # kWritable)
          => ~Happened(<<"new", "compact_processor_">>)
    /\ \A to \in StorageMode \ {kWritable} :
          Transition(kWritable, to)
              => (op.pre.compact_processor_ # "null"
                    => /\ Before(<<"Stop", "compact_processor_">>,
                                 <<"reset", "compact_processor_">>)
                       /\ Happened(<<"reset", "compact_processor_">>))

\* A demotion Writable -> Readable has stopped and dropped the compaction
\* processor.
C6_Witness ==
    /\ Transition(kWritable, kReadable)
    /\ op.pre.compact_processor_ = "started"
    /\ Happened(<<"reset", "compact_processor_">>)
    /\ Absent("compact_processor_")

\* C7 as stated: after SetStorageMode(UnInitialized) called in Admin returns
\* OK, the WAL manager is dropped and GetStorageMode returns UnInitialized.
C7_AdminToUnInit ==
    Transition(kAdmin, kUnInitialized)
        => /\ Absent("wal_mgr_")
           /\ GetStorageMode(Cur) = kUnInitialized

----------------------------------------------------------------------------
(* Teardown ordering *)

Processors == {"bg_processor_", "compact_processor_", "object_storage_processor_"}
DataPlane == {"new_catalog_", "wal_mgr_", "txn_mgr_", "buffer_mgr_"}

\* C8 as stated: in every teardown periodic_thread.stop precedes the stop of
\* bg_proc, compact_proc and object_store_proc, and each of these stops
\* precedes the drop of catalog, wal, txn_mgr and buffer_mgr.
C8_TearDownOrder ==
    TearDown =>
        \A p \in Processors :
            /\ Before(<<"Stop", "periodic_trigger_thread_">>, <<"Stop", p>>)
            /\ \A d \in DataPlane : Before(<<"Stop", p>>, <<"reset", d>>)

\* C8 amended: in every teardown periodic_thread.stop precedes the stop of
\* bg_proc, compact_proc and object_store_proc; the stops of bg_proc and
\* compact_proc precede the drop of catalog, wal, txn_mgr and buffer_mgr; the
\* stop of object_store_proc comes after the drop of catalog and wal and
\* precedes the drop of txn_mgr and buffer_mgr.
C8_TearDownOrderAsCoded ==
    TearDown =>
        /\ \A p \in Processors :
              Before(<<"Stop", "periodic_trigger_thread_">>, <<"Stop", p>>)
        /\ \A p \in {"bg_processor_", "compact_processor_"}, d \in DataPlane :
              Before(<<"Stop", p>>, <<"reset", d>>)
        /\ \A d \in {"new_catalog_", "wal_mgr_"} :
              Before(<<"reset", d>>, <<"Stop", "object_storage_processor_">>)
        /\ \A d \in {"txn_mgr_", "buffer_mgr_"} :
              Before(<<"Stop", "object_storage_processor_">>, <<"reset", d>>)

\* A teardown from Writable on a remote store ran to its end: the periodic
\* thread and all three processors were stopped, all four managers dropped.
C8_Witness ==
    /\ TearDown
    /\ Quiescent
    /\ status = "OK"
    /\ Happened(<<"Stop", "periodic_trigger_thread_">>)
    /\ \A p \in Processors : Happened(<<"Stop", p>>)
    /\ \A d \in DataPlane : Happened(<<"reset", d>>)

----------------------------------------------------------------------------
(* Failure of the remote store *)

\* C10: when InitRemoteStore fails in a bring-up from Admin, SetStorageMode
\* returns the error, current_mode is Admin again, UnInitRemoteStore has been
\* called, and the present handles and reader_phase are those before the call.
C10_RemoteInitFailureReverts ==
    (op.name = "SetStorageMode" /\ Happened(<<"InitRemoteStore", "error">>))
        => /\ status = "Error"
           /\ fatal = "none"
           /\ op.pre.current_storage_mode_ = kAdmin
           /\ current_storage_mode_ = kAdmin
           /\ Before(<<"InitRemoteStore", "error">>, <<"UnInitRemoteStore", "">>)
           /\ Happened(<<"UnInitRemoteStore", "">>)
           /\ ~remote_init
           /\ \A h \in Handles : Present(h) <=> (op.pre[h] # "null")
           /\ reader_init_phase_ = op.pre.reader_init_phase_

\* SetStorageMode(Writable) was called in Admin on a remote store that could
\* not be reached, and has returned.
C10_Witness ==
    /\ op.name = "SetStorageMode"
    /\ op.target = kWritable
    /\ op.pre.current_storage_mode_ = kAdmin
    /\ config.StorageType = kMinio
    /\ Happened(<<"InitRemoteStore", "error">>)
    /\ status = "Error"

----------------------------------------------------------------------------
(* Concurrent callers *)

\* Thread t is past the unchanged-mode check of SetStorageMode and has not
\* returned: it is executing a transition.
InTransition(t) ==
    pc[t] \in {"switch", "set_mode", "set_mode_locked", "check_wal", "make_wal",
               "reset_wal", "return"}

\* C9 as stated: SetStorageMode calls are serialized, the steps of two
\* transitions never interleave; in particular two concurrent
\* SetStorageMode(Admin) calls never both reach the WAL construction.
C9_Serialized ==
    \A t, u \in Threads :
        t # u => ~(InTransition(t) /\ InTransition(u))

----------------------------------------------------------------------------
(* Remote store pairing *)

\* C11: between operations with current_mode UnInitialized or Admin the number
\* of InitRemoteStore calls equals the number of UnInitRemoteStore calls, and
\* InitRemoteStore is never called while the remote store is initialised.
C11_RemoteInitBalanced ==
    /\ (Quiescent /\ current_storage_mode_ \in {kUnInitialized, kAdmin})
          => (remote_balance = 0 /\ ~remote_init)
    /\ (Happened(<<"InitRemoteStore", "ok">>) \/ Happened(<<"InitRemoteStore", "error">>))
          => ~op.pre.remote_init

\* A teardown from Writable to Admin of a remote store has paired the
\* InitRemoteStore of the bring-up with an UnInitRemoteStore.
C11_Witness ==
    /\ Transition(kWritable, kAdmin)
    /\ config.StorageType = kMinio
    /\ op.pre.remote_balance = 1
    /\ Happened(<<"UnInitRemoteStore", "">>)
    /\ remote_balance = 0

----------------------------------------------------------------------------
(* Reader bootstrap *)

\* The last operation was SetStorageMode(UnInitialized or Admin) called in
\* Readable with reader_phase = Phase1.
Phase1TearDown ==
    /\ TearDown
    /\ op.pre.current_storage_mode_ = kReadable
    /\ op.pre.reader_init_phase_ = kPhase1

\* The handles whose presence makes the readable teardown check the phase.
PhaseChecked == {"periodic_trigger_thread_", "bg_processor_", "txn_mgr_"}

\* C12 as stated: SetStorageMode(UnInitialized) and SetStorageMode(Admin)
\* called in Readable with reader_phase = Phase1 raise a fatal error instead
\* of performing the teardown.
C12_Phase1TearDownFatal ==
    Phase1TearDown => fatal = "unrecoverable"

\* C12 amended: SetStorageMode(UnInitialized) and SetStorageMode(Admin) called
\* in Readable with reader_phase = Phase1 raise the fatal error exactly when
\* periodic_thread, bg_proc or txn_mgr is present; when all three are absent
\* (the state the Admin -> Readable bring-up leaves) the teardown is performed
\* and returns OK.
C12_Phase1TearDownFatalIffWired ==
    Phase1TearDown =>
        IF \E h \in PhaseChecked : op.pre[h] # "null"
        THEN /\ fatal = "unrecoverable"
             /\ trace[Len(trace)] = <<"fatal", "Error reader init phase">>
        ELSE /\ fatal = "none"
             /\ status = "OK"
             /\ current_storage_mode_ = op.target
             /\ \A h \in Handles \ (KeptHandles \cup {"wal_mgr_"}) : Absent(h)
             /\ Present("wal_mgr_") <=> (op.target = kAdmin)

\* A reader still waiting in Phase1 (buffer manager started, nothing wired)
\* was torn down to UnInitialized and the call returned OK.
C12_Witness ==
    /\ Phase1TearDown
    /\ op.target = kUnInitialized
    /\ op.pre.buffer_mgr_ = "started"
    /\ \A h \in PhaseChecked : op.pre[h] = "null"
    /\ status = "OK"
    /\ current_storage_mode_ = kUnInitialized

\* C13: SetReaderStorageContinue raises a fatal error whenever it is called
\* with current_mode # Readable or reader_phase # Phase1; only from Readable,
\* Phase1 does it run to completion, and it then sets reader_phase = Phase2.
C13_ContinueOnlyFromPhase1 ==
    op.name = "SetReaderStorageContinue" =>
        /\ (op.pre.current_storage_mode_ # kReadable \/ op.pre.reader_init_phase_ # kPhase1)
              => fatal = "unrecoverable"
        /\ (fatal = "none")
              => /\ status = "OK"
                 /\ op.pre.current_storage_mode_ = kReadable
                 /\ op.pre.reader_init_phase_ = kPhase1
                 /\ current_storage_mode_ = kReadable
                 /\ reader_init_phase_ = kPhase2

\* SetReaderStorageContinue was called a second time, in Readable with
\* reader_phase = Phase2, and died.
C13_Witness ==
    /\ op.name = "SetReaderStorageContinue"
    /\ op.pre.current_storage_mode_ = kReadable
    /\ op.pre.reader_init_phase_ = kPhase2
    /\ fatal = "unrecoverable"

\* C14: while current_mode stays Readable, reader_phase changes only from
\* Phase1 to Phase2.
C14_PhaseOnlyForward ==
    [][(current_storage_mode_ = kReadable /\ current_storage_mode_' = kReadable)
          => \/ reader_init_phase_' = reader_init_phase_
             \/ (reader_init_phase_ = kPhase1 /\ reader_init_phase_' = kPhase2)]_vars

\* SetReaderStorageContinue has moved a reader from Phase1 to Phase2.
C14_Witness ==
    /\ op.name = "SetReaderStorageContinue"
    /\ op.pre.current_storage_mode_ = kReadable
    /\ op.pre.reader_init_phase_ = kPhase1
    /\ current_storage_mode_ = kReadable
    /\ reader_init_phase_ = kPhase2
    /\ status = "OK"

----------------------------------------------------------------------------
(* Calls of SetStorageMode that are not transitions *)

\* The last operation was SetStorageMode(m) called with current_mode = m.
SelfCall ==
    /\ op.name = "SetStorageMode"
    /\ op.pre.current_storage_mode_ = op.target

\* C15: SetStorageMode(m) called with current_mode = m returns OK and leaves
\* current_mode, reader_phase and every handle, cleanup_tracer included,
\* unchanged.
C15_UnchangedModeIsNoOp ==
    SelfCall =>
        /\ status = "OK"
        /\ fatal = "none"
        /\ current_storage_mode_ = op.pre.current_storage_mode_
        /\ reader_init_phase_ = op.pre.reader_init_phase_
        /\ \A h \in Handles : Cur[h] = op.pre[h]
        /\ triggers = op.pre.triggers
        /\ trace = << <<"warn", "Set unchanged mode">> >>

\* SetStorageMode(Readable) was called on a bootstrapped reader, which holds a
\* cleanup tracer and its background machinery.
C15_Witness ==
    /\ SelfCall
    /\ op.target = kReadable
    /\ reader_init_phase_ = kPhase2
    /\ Present("cleanup_info_tracer_")
    /\ Present("bg_processor_")
    /\ status = "OK"

\* The messages of the guards inside the cases of the switch.
SelfTransitionErrors ==
    { <<"fatal", "Attempt to set storage mode from Admin to Admin">>,
      <<"fatal", "Attempt to set storage mode from Readable to Readable">>,
      <<"fatal", "Attempt to set storage mode from Writable to Writable">> }

C17_UnInitOnlyToAdmin ==
    (op.name = "SetStorageMode" /\ op.pre.current_storage_mode_ = kUnInitialized) =>
        /\ op.target \in {kReadable, kWritable}
              => /\ fatal = "unrecoverable"
                 /\ current_storage_mode_ = kUnInitialized
                 /\ wal_mgr_ = op.pre.wal_mgr_
                 /\ Absent("wal_mgr_")
                 /\ ~Happened(<<"new", "wal_mgr_">>)
        /\ (fatal = "none" /\ op.target # kUnInitialized)
              => /\ op.target = kAdmin
                 /\ status = "OK"
                 /\ current_storage_mode_ = kAdmin
                 /\ Happened(<<"new", "wal_mgr_">>)

\* SetStorageMode(Writable) was called in UnInitialized and died.
C17_Witness ==
    /\ op.name = "SetStorageMode"
    /\ op.pre.current_storage_mode_ = kUnInitialized
    /\ op.target = kWritable
    /\ fatal = "unrecoverable"
    /\ current_storage_mode_ = kUnInitialized

----------------------------------------------------------------------------
(* Result cache *)

\* C18: result_cache_manager() returns the result-cache handle only when the
\* option ResultCache is on; whenever the option is not on it returns none, in
\* every mode and whether or not the result cache has been constructed.
C18_ResultCacheOnlyWhenOn ==
    op.name = "result_cache_manager" =>
        /\ status = IF config.ResultCache = "on" THEN op.pre.result_cache_manager_ ELSE "null"
        /\ config.ResultCache # "on" => status = "null"
        /\ \A h \in Handles : Cur[h] = op.pre[h]
        /\ current_storage_mode_ = op.pre.current_storage_mode_

\* With the option off, result_cache_manager() was called on a Storage that
\* has constructed its result cache, and returned none.
C18_Witness ==
    /\ op.name = "result_cache_manager"
    /\ config.ResultCache = "off"
    /\ Present("result_cache_manager_")
    /\ status = "null"

----------------------------------------------------------------------------
(* Back-pointers *)

\* C19: in every teardown no live component holds a back-pointer to a dropped
\* one: bg_proc is dropped before wal and catalog, compact_proc before catalog
\* and txn_mgr, and mem_idx_tracer before catalog and txn_mgr.
C19_BackPointersOutliveNothing ==
    TearDown =>
        /\ \A d \in {"wal_mgr_", "new_catalog_"} :
              Before(<<"reset", "bg_processor_">>, <<"reset", d>>)
        /\ \A d \in {"new_catalog_", "txn_mgr_"} :
              /\ Before(<<"reset", "compact_processor_">>, <<"reset", d>>)
              /\ Before(<<"reset", "memory_index_tracer_">>, <<"reset", d>>)

\* C20: in Readable, whenever periodic_thread, bg_proc or txn_mgr is present,
\* reader_phase = Phase2; hence a teardown of a reader never reaches the
\* 'Error reader init phase' fatal after a demotion from Writable.
C20_WiredReaderIsPhase2 ==
    /\ (Quiescent /\ current_storage_mode_ = kReadable /\ \E h \in PhaseChecked : Present(h))
          => reader_init_phase_ = kPhase2
    /\ (TearDown /\ op.pre.current_storage_mode_ = kReadable
                 /\ \E h \in PhaseChecked : op.pre[h] # "null")
          => ~Happened(<<"fatal", "Error reader init phase">>)

----------------------------------------------------------------------------
(* What a concurrent GetStorageMode can see *)

\* GetStorageMode holds mutex_ for its one read and SetStorageMode holds it
\* only inside the blocks that assign current_storage_mode_, so a call of
\* GetStorageMode by another thread can fall after any prefix of the
\* statements of a running SetStorageMode.  trace lists those statements:
\* the k first of them have been executed.
Prefixes == 0 .. Len(trace)

\* The index of the last of the k first events that is in the set es (0: none).
LastOf(k, es) ==
    LET idx == {i \in 1 .. k : trace[i] \in es}
    IN  IF idx = {} THEN 0 ELSE CHOOSE i \in idx : \A j \in idx : j <= i

\* What GetStorageMode returns after the k first statements.
ModeAt(k) ==
    LET i == LastOf(k, {<<"mode", m>> : m \in StorageMode})
    IN  IF i = 0 THEN op.pre.current_storage_mode_ ELSE trace[i][2]

\* Whether handle h is set after the k first statements.
PresentAt(k, h) ==
    LET i == LastOf(k, {<<"new", h>>, <<"reset", h>>})
    IN  IF i = 0 THEN op.pre[h] # "null" ELSE trace[i][1] = "new"

\* Whether one of the k first statements dropped a handle.
DroppingAt(k) == \E i \in 1 .. k, h \in Handles : trace[i] = <<"reset", h>>

\* C21: a GetStorageMode concurrent with a running SetStorageMode never
\* returns a mode whose handles are missing: not Writable before catalog,
\* txn_mgr and bg_proc are constructed by the Admin -> Writable bring-up, and
\* not Readable or Writable once a teardown has begun to drop handles.
C21_ObservedModeHasHandles ==
    op.name = "SetStorageMode" =>
        \A k \in Prefixes :
            /\ (op.pre.current_storage_mode_ = kAdmin /\ ModeAt(k) = kWritable)
                  => \A h \in {"new_catalog_", "txn_mgr_", "bg_processor_"} : PresentAt(k, h)
            /\ (TearDown /\ DroppingAt(k)) => ModeAt(k) \notin {kReadable, kWritable}

----------------------------------------------------------------------------
(* WAL manager and transaction manager *)

\* C22: whenever the WAL manager is started, txn_mgr is present and started:
\* wal.start comes after txn_mgr.start in the writable bring-up and in
\* SetReaderStorageContinue, the WAL manager built on entry to Admin is not
\* started while the mode is Admin, and every teardown stops the WAL before
\* it stops txn_mgr.
C22_WalStartedNeedsTxn ==
    /\ wal_mgr_ = "started" => txn_mgr_ = "started"
    /\ Happened(<<"Start", "wal_mgr_">>)
          => /\ Happened(<<"Start", "txn_mgr_">>)
             /\ Before(<<"Start", "txn_mgr_">>, <<"Start", "wal_mgr_">>)
    /\ (Quiescent /\ current_storage_mode_ = kAdmin) => wal_mgr_ # "started"
    /\ TearDown => Before(<<"Stop", "wal_mgr_">>, <<"Stop", "txn_mgr_">>)

\* SetReaderStorageContinue has started the WAL manager of a reader after its
\* transaction manager.
C22_Witness ==
    /\ op.name = "SetReaderStorageContinue"
    /\ status = "OK"
    /\ op.pre.wal_mgr_ = "made"
    /\ wal_mgr_ = "started"
    /\ txn_mgr_ = "started"
    /\ Pos(<<"Start", "txn_mgr_">>) < Pos(<<"Start", "wal_mgr_">>)

----------------------------------------------------------------------------
(* Forced checkpoint *)

SubmitForceCheckpoint == <<"Submit ForceCheckpointTask", "bg_processor_">>
WaitForceCheckpoint == <<"Wait ForceCheckpointTask", "bg_processor_">>
CommitForceCheckpoint == <<"CommitTxn ForceCheckpointTask", "txn_mgr_">>

\* C23: every Admin -> Writable bring-up submits the forced full checkpoint
\* after bg_proc has been started, and waits for it and commits its
\* transaction before periodic_thread.start and before it returns OK; no other
\* operation submits a forced checkpoint.
C23_ForceCheckpointInBringUp ==
    /\ Transition(kAdmin, kWritable)
          => /\ Happened(<<"Start", "bg_processor_">>)
             /\ Pos(<<"Start", "bg_processor_">>) < Pos(SubmitForceCheckpoint)
             /\ Pos(SubmitForceCheckpoint) < Pos(WaitForceCheckpoint)
             /\ Pos(WaitForceCheckpoint) < Pos(CommitForceCheckpoint)
             /\ Pos(CommitForceCheckpoint) < Pos(<<"Start", "periodic_trigger_thread_">>)
    /\ Happened(SubmitForceCheckpoint)
          => /\ op.name = "SetStorageMode"
             /\ op.pre.current_storage_mode_ = kAdmin
             /\ op.target = kWritable
             /\ Pos(<<"Start", "bg_processor_">>) \in 1 .. Pos(SubmitForceCheckpoint) - 1

\* An Admin -> Writable bring-up returned OK after its forced checkpoint.
C23_Witness ==
    /\ Transition(kAdmin, kWritable)
    /\ current_storage_mode_ = kWritable
    /\ Happened(SubmitForceCheckpoint)
    /\ Happened(WaitForceCheckpoint)
    /\ periodic_trigger_thread_ = "started"

----------------------------------------------------------------------------
(* Periodic triggers *)

\* The triggers that hold compact_processor_.get().
CompactionTriggers == {"compact_segment_trigger_", "optimize_index_trigger_"}

\* C24: between operations, whenever periodic_thread is present its trigger
\* set is exactly {cleanup} in Readable and exactly {full-checkpoint,
\* delta-checkpoint, compact-segment, optimize-index, cleanup} in Writable,
\* whatever bring-ups, continuations, promotions and demotions came before;
\* the compact-segment and optimize-index triggers refer to the compaction
\* processor currently owned: it is present, and an operation that builds a
\* compaction processor installs the triggers after building it.
C24_TriggersMatchMode ==
    /\ (Quiescent /\ Present("periodic_trigger_thread_"))
          => /\ current_storage_mode_ = kReadable => triggers = CleanupTrigger
             /\ current_storage_mode_ = kWritable
                   => triggers = WritableTriggers \cup CleanupTrigger
    /\ (Quiescent /\ triggers \cap CompactionTriggers # {})
          => /\ Present("compact_processor_")
             /\ Happened(<<"new", "compact_processor_">>)
                   => LastOf(Len(trace), {<<"new", "compact_processor_">>})
                         < LastOf(Len(trace), {<<"SetTriggers", "periodic_trigger_thread_">>})

\* A reader was promoted: its periodic thread, which carried the cleanup
\* trigger only, now carries all five.
C24_Witness ==
    /\ Transition(kReadable, kWritable)
    /\ op.pre.triggers = CleanupTrigger
    /\ triggers = WritableTriggers \cup CleanupTrigger
    /\ Present("periodic_trigger_thread_")
    /\ Present("compact_processor_")

----------------------------------------------------------------------------
(* Handles used by promotion and by SetReaderStorageContinue *)

\* C25: SetStorageMode(Writable) called in Readable never uses an absent
\* handle: periodic_thread, catalog and txn_mgr are present whenever the
\* promotion runs; in particular it does not run with reader_phase = Phase1.
C25_PromotionHasHandles ==
    (op.name = "SetStorageMode" /\ op.pre.current_storage_mode_ = kReadable
                                /\ op.target = kWritable)
        => /\ \A h \in {"periodic_trigger_thread_", "new_catalog_", "txn_mgr_"} :
                 op.pre[h] # "null"
           /\ op.pre.reader_init_phase_ # kPhase1
           /\ fatal # "nullptr"

\* C26: SetReaderStorageContinue never uses an absent catalog: whenever it
\* runs past its check of the mode, the catalog has been constructed before
\* builtin registration, StartMemoryIndexCommit and MemIndexRecover use it.
C26_ContinueHasCatalog ==
    (op.name = "SetReaderStorageContinue" /\ op.pre.current_storage_mode_ = kReadable)
        => /\ op.pre.new_catalog_ # "null"
           /\ ~Happened(<<"nullptr", "new_catalog_">>)

----------------------------------------------------------------------------
(* Compaction algorithm *)

\* C27: in Writable with a compact interval > 0 the compaction algorithm of
\* the catalog has been initialised, whether Writable was reached by the
\* bring-up from Admin or by promotion from Readable.
C27_CompactionAlgInWritable ==
    (Quiescent /\ current_storage_mode_ = kWritable /\ config.CompactInterval > 0)
        => compaction_alg

----------------------------------------------------------------------------
(* Frame conditions of demotion and promotion *)

\* The handles demotion and promotion leave alone.
Untouched == {"wal_mgr_", "new_catalog_", "txn_mgr_", "buffer_mgr_", "bg_processor_",
              "memory_index_tracer_", "persistence_manager_", "object_storage_processor_",
              "result_cache_manager_"}

\* No statement of the last operation built, started, stopped or dropped a
\* handle of the set hs.
NotCycled(hs) ==
    \A i \in 1 .. Len(trace) :
        ~(trace[i][1] \in {"new", "Start", "Stop", "reset"} /\ trace[i][2] \in hs)

\* C28: the Writable -> Readable demotion leaves wal, catalog, txn_mgr,
\* buffer_mgr, bg_proc, mem_idx_tracer, persistence, object_store_proc and
\* result_cache as they were, neither stopped nor restarted: it stops and
\* drops periodic_thread and compact_proc, builds and starts a new
\* periodic_thread, registers the cleanup trigger with bg_proc and sets
\* current_mode = Readable.
C28_DemotionFrame ==
    Transition(kWritable, kReadable) =>
        /\ \A h \in Untouched : Cur[h] = op.pre[h]
        /\ NotCycled(Untouched)
        /\ trace = << <<"new", "cleanup_info_tracer_">>,
                      <<"Stop", "periodic_trigger_thread_">>,
                      <<"reset", "periodic_trigger_thread_">>,
                      <<"Stop", "compact_processor_">>,
                      <<"reset", "compact_processor_">>,
                      <<"new", "periodic_trigger_thread_">>,
                      <<"SetTriggers", "periodic_trigger_thread_">>,
                      <<"SetCleanupTrigger", "bg_processor_">>,
                      <<"Start", "periodic_trigger_thread_">>,
                      <<"mode", kReadable>> >>
        /\ current_storage_mode_ = kReadable

\* A writer on a remote store with a persistence manager was demoted.
C28_Witness ==
    /\ Transition(kWritable, kReadable)
    /\ \A h \in Untouched \ {"new_catalog_", "memory_index_tracer_", "persistence_manager_",
                             "result_cache_manager_"} : Cur[h] = "started"
    /\ Present("persistence_manager_")
    /\ Absent("compact_processor_")
    /\ periodic_trigger_thread_ = "started"

\* C29: the Readable -> Writable promotion from Phase2 leaves wal, catalog,
\* txn_mgr, buffer_mgr, bg_proc, mem_idx_tracer, persistence,
\* object_store_proc, result_cache and reader_phase as they were: it builds
\* and starts compact_proc, stops periodic_thread before it changes the
\* triggers, starts it again afterwards, and sets current_mode = Writable as
\* its last step.
C29_PromotionFrame ==
    (Transition(kReadable, kWritable) /\ op.pre.reader_init_phase_ = kPhase2) =>
        /\ \A h \in Untouched : Cur[h] = op.pre[h]
        /\ NotCycled(Untouched)
        /\ reader_init_phase_ = kPhase2
        /\ trace = << <<"new", "cleanup_info_tracer_">>,
                      <<"new", "compact_processor_">>,
                      <<"Start", "compact_processor_">>,
                      <<"Stop", "periodic_trigger_thread_">>,
                      <<"SetTriggers", "periodic_trigger_thread_">>,
                      <<"Start", "periodic_trigger_thread_">>,
                      <<"mode", kWritable>> >>
        /\ current_storage_mode_ = kWritable

\* A reader in Phase2 was promoted.
C29_Witness ==
    /\ Transition(kReadable, kWritable)
    /\ op.pre.reader_init_phase_ = kPhase2
    /\ op.pre.compact_processor_ = "null"
    /\ compact_processor_ = "started"
    /\ periodic_trigger_thread_ = "started"
    /\ bg_processor_ = "started"

----------------------------------------------------------------------------
(* Transaction manager, buffer manager, persistence manager *)

\* C30: in every teardown txn_mgr is stopped and dropped before buffer_mgr is
\* stopped, and buffer_mgr is stopped and dropped before persistence is
\* dropped.
C30_TxnBufferPersistenceOrder ==
    TearDown =>
        /\ Before(<<"Stop", "txn_mgr_">>, <<"reset", "txn_mgr_">>)
        /\ Before(<<"reset", "txn_mgr_">>, <<"Stop", "buffer_mgr_">>)
        /\ Before(<<"Stop", "buffer_mgr_">>, <<"reset", "buffer_mgr_">>)
        /\ Before(<<"reset", "buffer_mgr_">>, <<"reset", "persistence_manager_">>)
        /\ Happened(<<"reset", "txn_mgr_">>) => Happened(<<"Stop", "txn_mgr_">>)
        /\ Happened(<<"reset", "buffer_mgr_">>) => Happened(<<"Stop", "buffer_mgr_">>)

\* A teardown stopped and dropped the transaction manager, then the buffer
\* manager, then dropped the persistence manager.
C30_Witness ==
    /\ TearDown
    /\ fatal = "none"
    /\ Happened(<<"reset", "txn_mgr_">>)
    /\ Happened(<<"reset", "buffer_mgr_">>)
    /\ Happened(<<"reset", "persistence_manager_">>)
    /\ Pos(<<"reset", "txn_mgr_">>) < Pos(<<"Stop", "buffer_mgr_">>)
    /\ Pos(<<"reset", "buffer_mgr_">>) < Pos(<<"reset", "persistence_manager_">>)

----------------------------------------------------------------------------
(* WAL manager across teardowns to Admin *)

\* The fatal events of the guards 'was initialized before' of the bring-up.
InitializedBefore ==
    {<<"fatal", h>> : h \in Handles}
        \cup {<<"fatal", "remote storage system was initialized before.">>}

\* The last operation was SetStorageMode(Readable or Writable) called in Admin
\* with the WAL manager a teardown or UnInit -> Admin leaves: built, not started.
BringUpFromAdmin ==
    /\ op.name = "SetStorageMode"
    /\ op.pre.current_storage_mode_ = kAdmin
    /\ op.target \in {kReadable, kWritable}
    /\ op.pre.wal_mgr_ = "made"

\* C31: every teardown to Admin stops and drops the WAL manager and then, as
\* the last step of the teardown, builds a new one that is not started, so
\* that a following SetStorageMode(Readable) or SetStorageMode(Writable) runs
\* the whole bring-up again and reaches no 'was initialized before' guard,
\* however many cycles Admin -> Readable or Writable -> Admin came before.
C31_WalRecreatedForAdmin ==
    /\ (TearDown /\ op.target = kAdmin)
          => /\ fatal = "none"
             /\ Happened(<<"Stop", "wal_mgr_">>)
             /\ Pos(<<"Stop", "wal_mgr_">>) < Pos(<<"reset", "wal_mgr_">>)
             /\ LastOf(Len(trace), {<<"reset", "wal_mgr_">>})
                   < LastOf(Len(trace), {<<"new", "wal_mgr_">>})
             /\ trace[Len(trace) - 1] = <<"new", "wal_mgr_">>
             /\ trace[Len(trace)] = <<"mode", kAdmin>>
             /\ wal_mgr_ = "made"
             /\ \A h \in Handles \ (KeptHandles \cup {"wal_mgr_"}) : Absent(h)
    /\ BringUpFromAdmin
          => /\ fatal = "none"
             /\ \A e \in InitializedBefore : ~Happened(e)
             /\ status = "OK" => (current_storage_mode_ = op.target /\ Present("buffer_mgr_"))

----------------------------------------------------------------------------
(* Default database *)

CreateDefaultDatabase == <<"CreateDatabase", "default_db">>

====
